---- MODULE Spec2Model ----
(***************************************************************************)
(* AudioRoutingGraphPlugin: a linear chain of Web Audio nodes built by     *)
(* addNode / usePreset and closed by getProcessedStream.  Two variants of  *)
(* the class exist, src/index.js and src/src/index.ts; the variable        *)
(* `variant` says which one a behaviour runs.                              *)
(*                                                                         *)
(* Numbers are kept in hundredths (1.5 is 150, 0.25 is 25, -50 is -5000).  *)
(* A JavaScript value is a tagged record, so that undefined, null, 0 and   *)
(* '' stay distinct values.                                                *)
(***************************************************************************)
EXTENDS Integers, Sequences, FiniteSets

VARIABLES variant, awaits, sinkOutputs, originalStream, nodes, conns, calls,
          dropped, registered, instantiated

vars ==
    <<variant, awaits, sinkOutputs, originalStream, nodes, conns, calls, dropped,
      registered, instantiated>>

\* ------------------------------------------------------------------ bounds
\* Number of calls the caller makes on one plugin object.
MaxCalls == 2
\* Number of calls in the runs that enumerate option values.
MaxCfgCalls == 1
\* Number of tracks of the input stream in the runs that enumerate streams.
MaxTracks == 3
\* Number of calls in the runs that go on after getProcessedStream.
MaxFinalCalls == 3

\* ------------------------------------------------------------------ values
Undef == [t |-> "undefined"]
Null == [t |-> "null"]
Num(n) == [t |-> "num", n |-> n]
Str(s) == [t |-> "str", s |-> s]

\* JavaScript's ToBoolean(v) = false
Falsy(v) ==
    \/ v.t \in {"undefined", "null"}
    \/ (v.t = "num" /\ v.n = 0)
    \/ (v.t = "str" /\ v.s = "")

\* `v || d` of src/index.js
OrDefault(v, d) == IF Falsy(v) THEN d ELSE v

\* `{ p = d }` of src/src/index.ts: the default applies to undefined only
ParamDefault(v, d) == IF v = Undef THEN d ELSE v

Dflt(v, d) == IF variant = "js" THEN OrDefault(v, d) ELSE ParamDefault(v, d)

\* ------------------------------------------------------------------ stages
NodeTypes ==
    {"GAIN", "BIQUAD_FILTER", "DYNAMIC_COMPRESSOR", "DELAY", "CONVOLVER",
     "WAVE_SHAPER", "PROCESSING_SCRIPT"}

\* A node object is known by the call that created it and its rank in it.
Id(n) == <<n.call, n.seq>>

source == [call |-> 0, seq |-> 0, kind |-> "SOURCE", cfg |-> <<>>]

destination == [call |-> 0, seq |-> 1, kind |-> "SINK", cfg |-> <<>>]

GainNode(o) == [gain |-> Dflt(o.gain, Num(100))]

\* The defaults of frequency and Q exchanged.
BiquadFilterNodeAs_SwappedDefaults(o) ==
    [type |-> Dflt(o.type, Str("lowpass")),
     frequency |-> Dflt(o.frequency, Num(100)),
     Q |-> Dflt(o.Q, Num(35000))]

BiquadFilterNode(o) ==
    [type |-> Dflt(o.type, Str("lowpass")),
     frequency |-> Dflt(o.frequency, Num(35000)),
     Q |-> Dflt(o.Q, Num(100))]

DynamicCompressorNode(o) ==
    [threshold |-> Dflt(o.threshold, Num(-5000)),
     knee |-> Dflt(o.knee, Num(4000)),
     ratio |-> Dflt(o.ratio, Num(1200)),
     attack |-> Dflt(o.attack, Num(0)),
     release |-> Dflt(o.release, Num(25))]

DelayNode(o) == [delayTime |-> o.delayTime, maxDelayTime |-> o.maxDelayTime]

ConvolverNode(o) == [buffer |-> o.buffer, normalize |-> o.normalize]

WaveShaperNode(o) == [curve |-> o.curve, oversample |-> o.oversample]

AudioWorkletNode(o) == [processorName |-> o.processorName]

\* The configuration the _addXxxNode function of a kind gives its node.
Configure(kind, o) ==
    CASE kind = "GAIN" -> GainNode(o)
      [] kind = "BIQUAD_FILTER" -> BiquadFilterNode(o)
      [] kind = "DYNAMIC_COMPRESSOR" -> DynamicCompressorNode(o)
      [] kind = "DELAY" -> DelayNode(o)
      [] kind = "CONVOLVER" -> ConvolverNode(o)
      [] kind = "WAVE_SHAPER" -> WaveShaperNode(o)
      [] kind = "PROCESSING_SCRIPT" -> AudioWorkletNode(o)

NewNode(c, k, kind, o) ==
    [call |-> c, seq |-> k, kind |-> kind, cfg |-> Configure(kind, o)]

\* `new DelayNode(ctx, options)`: the runtime refuses (NotSupportedError) a
\* maxDelayTime outside ]0, 180[ seconds and clamps a delayTime above
\* maxDelayTime; no other constructor call of the sync kinds can fail here.
ConstructorError(kind, o) ==
    IF kind = "DELAY" /\ (o.maxDelayTime.n <= 0 \/ o.maxDelayTime.n >= 18000)
    THEN "NotSupportedError"
    ELSE "none"

\* ------------------------------------------------------------------ chain
\* A chain value: the nodes list, the connections made, and the error the
\* last operation on it raised ("none" when it raised none).
Chain(ns, cs, e) == [nodes |-> ns, conns |-> cs, err |-> e]

LastNode(ns) == ns[Len(ns)]

\* AudioNode.connect from a node without outputs raises IndexSizeError; only
\* the destination node can be such a node (sinkOutputs = 0).
ConnectError(from) ==
    IF from.kind = "SINK" /\ sinkOutputs = 0 THEN "IndexSizeError" ELSE "none"

\* The node put in the place of the last one instead of after it.
PushBackAs_Replaces(ch, node) ==
    IF ConnectError(LastNode(ch.nodes)) # "none"
    THEN Chain(ch.nodes, ch.conns, ConnectError(LastNode(ch.nodes)))
    ELSE Chain([ch.nodes EXCEPT ![Len(ch.nodes)] = node],
               ch.conns \cup {<<Id(LastNode(ch.nodes)), Id(node)>>}, "none")

\* _pushBack: connect the last node to `node`, then push `node`.
PushBack(ch, node) ==
    IF ConnectError(LastNode(ch.nodes)) # "none"
    THEN Chain(ch.nodes, ch.conns, ConnectError(LastNode(ch.nodes)))
    ELSE Chain(Append(ch.nodes, node),
               ch.conns \cup {<<Id(LastNode(ch.nodes)), Id(node)>>}, "none")

\* The kinds whose _addXxx function has no await.
SyncKinds == {"GAIN", "BIQUAD_FILTER", "DYNAMIC_COMPRESSOR", "DELAY", "WAVE_SHAPER"}

\* The first await of the two async kinds.
FirstLoad(kind) == IF kind = "CONVOLVER" THEN "fetch" ELSE "addModule"

\* DELAY treated as a kind whose stage is attached later.
AddNodeSyncAs_DelayDeferred(ch, c, k, kind, o) ==
    IF kind \in SyncKinds \ {"DELAY"}
    THEN IF ConstructorError(kind, o) # "none"
         THEN Chain(ch.nodes, ch.conns, ConstructorError(kind, o))
         ELSE PushBack(ch, NewNode(c, k, kind, o))
    ELSE Chain(ch.nodes, ch.conns, "none")

\* addNode up to the point where it hands control back, as a function of the
\* chain.  The async kinds leave the chain alone until their load ends; a kind
\* outside the switch does nothing.
AddNodeSync(ch, c, k, kind, o) ==
    IF kind \in SyncKinds
    THEN IF ConstructorError(kind, o) # "none"
         THEN Chain(ch.nodes, ch.conns, ConstructorError(kind, o))
         ELSE PushBack(ch, NewNode(c, k, kind, o))
    ELSE Chain(ch.nodes, ch.conns, "none")

\* The destination put first instead of last.
GetProcessedStreamOnAs_Unshift(ch) ==
    Chain(<<destination>> \o ch.nodes,
          ch.conns \cup {<<Id(LastNode(ch.nodes)), Id(destination)>>}, "none")

\* getProcessedStream as a function of the chain.
GetProcessedStreamOn(ch) == PushBack(ch, destination)

\* ------------------------------------------------------------------ streams
\* A stream is the sequence of its tracks; a track has an identity and a kind.
Track(id, kind) == [id |-> id, kind |-> kind]

GetAudioTracks(stream) == SelectSeq(stream, LAMBDA t : t.kind = "audio")

\* All the tracks instead of the video ones.
GetVideoTracksAs_GetTracks(stream) == stream

GetVideoTracks(stream) == SelectSeq(stream, LAMBDA t : t.kind = "video")

\* MediaStream.addTrack: a track the stream already has is not added again.
AddTrack(stream, t) ==
    IF \E k \in 1..Len(stream) : stream[k] = t THEN stream ELSE Append(stream, t)

\* `tracks.forEach((track) => { stream.addTrack(track); })`
RECURSIVE AddTracks(_, _)
AddTracks(stream, tracks) ==
    IF tracks = <<>> THEN stream
    ELSE AddTracks(AddTrack(stream, Head(tracks)), Tail(tracks))

\* this.destination.stream: the one audio track the destination node makes.
destinationStream == <<Track("processed", "audio")>>

\* The stream getProcessedStream builds and returns.
ProcessedStream ==
    AddTracks(AddTracks(<<>>, GetAudioTracks(destinationStream)),
              GetVideoTracks(originalStream))

\* ------------------------------------------------------------------ presets
Stage(kind, o) == [kind |-> kind, opts |-> o]

GAIN_BIQUAD_DELAY ==
    <<Stage("GAIN", [gain |-> Num(150)]),
      Stage("BIQUAD_FILTER",
            [type |-> Str("highpass"), frequency |-> Num(100000), Q |-> Num(100)]),
      Stage("DELAY", [delayTime |-> Num(30), maxDelayTime |-> Num(100)])>>

GAIN_DELAY ==
    <<Stage("GAIN", [gain |-> Num(50)]),
      Stage("DELAY", [delayTime |-> Num(25), maxDelayTime |-> Num(50)])>>

DYNAMIC_DELAY ==
    <<Stage("DYNAMIC_COMPRESSOR",
            [threshold |-> Num(-2400), knee |-> Num(2000), ratio |-> Num(1200),
             attack |-> Num(30), release |-> Num(25)]),
      Stage("DELAY", [delayTime |-> Num(30), maxDelayTime |-> Num(100)])>>

ECHO ==
    <<Stage("DELAY", [delayTime |-> Num(25), maxDelayTime |-> Num(50)]),
      Stage("GAIN", [gain |-> Num(50)])>>

BIQUAD_DELAY ==
    <<Stage("BIQUAD_FILTER",
            [type |-> Str("highpass"), frequency |-> Num(200000), Q |-> Num(200)]),
      Stage("DELAY", [delayTime |-> Num(25), maxDelayTime |-> Num(50)])>>

\* The cases of usePreset's switch in each variant.
PresetType ==
    IF variant = "js"
    THEN {"GAIN_BIQUAD_DELAY"}
    ELSE {"GAIN_BIQUAD_DELAY", "GAIN_DELAY", "DYNAMIC_DELAY", "ECHO", "BIQUAD_DELAY"}

\* The addNode calls of the case usePreset's switch takes; none when no case
\* matches (the switch has no default).
PresetStages(name) ==
    IF name \notin PresetType THEN <<>>
    ELSE CASE name = "GAIN_BIQUAD_DELAY" -> GAIN_BIQUAD_DELAY
           [] name = "GAIN_DELAY" -> GAIN_DELAY
           [] name = "DYNAMIC_DELAY" -> DYNAMIC_DELAY
           [] name = "ECHO" -> ECHO
           [] name = "BIQUAD_DELAY" -> BIQUAD_DELAY

\* The un-awaited addNode calls k.. of a case, one after the other; a throw
\* ends the sequence.
RECURSIVE AddAll(_, _, _, _)
AddAll(ch, c, stages, k) ==
    IF k > Len(stages) \/ ch.err # "none" THEN ch
    ELSE AddAll(AddNodeSync(ch, c, k, stages[k].kind, stages[k].opts), c, stages, k + 1)

\* usePreset of src/index.js, which has no await: the whole body in one go.
UsePresetJs(ch, c, name) ==
    LET added == AddAll(ch, c, PresetStages(name), 1)
    IN IF added.err # "none" THEN added ELSE GetProcessedStreamOn(added)

\* ------------------------------------------------------------------ calls
\* How a call's outcome reaches the caller.  ret is "value" (a plain value
\* was returned), "threw" (a synchronous throw), or the state of the promise
\* returned: "pending", "fulfilled", "rejected".  err is the error the call
\* raised, load the progress of the resource loading it started, pc the
\* number of addNode calls a usePreset has made, fin whether the call has run
\* getProcessedStream, out the stream it returned (<<>> when none).
Call(op, arg, o, ret, err, load, pc) ==
    [op |-> op, arg |-> arg, opts |-> o, ret |-> ret, err |-> err,
     load |-> load, pc |-> pc, fin |-> FALSE, out |-> <<>>]

\* The call has run getProcessedStream, which raised e or returned the stream.
Finalizing(call, e) ==
    [call EXCEPT !.fin = TRUE, !.out = IF e = "none" THEN ProcessedStream ELSE <<>>]

\* An async function settles the promise it returns.
Settled(e) == IF e = "none" THEN "fulfilled" ELSE "rejected"

\* A plain function returns or throws.
Returned(e) == IF e = "none" THEN "value" ELSE "threw"

\* What the caller holds once addNode has handed control back.
AddNodeRet(kind, e) ==
    IF variant = "js" THEN Returned(e)
    ELSE IF kind \in SyncKinds \/ kind \notin NodeTypes THEN Settled(e)
    ELSE "pending"

AddNodeLoad(kind) ==
    IF kind \in NodeTypes \ SyncKinds THEN FirstLoad(kind) ELSE "none"

\* A caller that awaits each result issues no call while one is pending.
CanCall(bound) ==
    /\ Len(calls) < bound
    /\ awaits => \A i \in 1..Len(calls) : calls[i].ret # "pending"

\* The state the constructor leaves, for an input stream among `streams`.
Constructed(streams) ==
    /\ variant \in {"js", "ts"}
    /\ awaits \in BOOLEAN
    /\ sinkOutputs \in {0, 1}
    /\ originalStream \in streams
    /\ nodes = <<source>>
    /\ conns = {}
    /\ calls = <<>>
    /\ dropped = {}
    /\ registered = {}
    /\ instantiated = {}

Init ==
    Constructed({<<Track("v1", "video"), Track("a1", "audio"), Track("v2", "video")>>})

AddNode(bound, kind, o) ==
    /\ CanCall(bound)
    /\ LET c == Len(calls) + 1
           ch == AddNodeSync(Chain(nodes, conns, "none"), c, 1, kind, o)
       IN /\ nodes' = ch.nodes
          /\ conns' = ch.conns
          /\ calls' = Append(calls, Call("addNode", kind, o, AddNodeRet(kind, ch.err),
                                         ch.err, AddNodeLoad(kind), 0))
    /\ UNCHANGED <<variant, awaits, sinkOutputs, originalStream, dropped, registered,
                   instantiated>>

\* A load that connects its node although it failed.
LoadFailsAs_Connected(c, e) ==
    /\ calls' = [calls EXCEPT ![c].load = "failed", ![c].err = e,
                              ![c].ret = IF variant = "ts" THEN "rejected" ELSE @]
    /\ dropped' = IF variant = "ts" THEN dropped ELSE dropped \cup {<<c, e>>}
    /\ nodes' = nodes
    /\ conns' = conns \cup {<<Id(LastNode(nodes)), <<c, 1>>>>}

\* The rejection of an _addConvolverNode / _addProcessingScript promise:
\* src/src/index.ts awaits it inside addNode, src/index.js drops the promise.
LoadFails(c, e) ==
    /\ calls' = [calls EXCEPT ![c].load = "failed", ![c].err = e,
                              ![c].ret = IF variant = "ts" THEN "rejected" ELSE @]
    /\ dropped' = IF variant = "ts" THEN dropped ELSE dropped \cup {<<c, e>>}
    /\ UNCHANGED <<nodes, conns>>

\* The last step of a load: the node is built and pushed.
LoadAttaches(c) ==
    LET ch == PushBack(Chain(nodes, conns, "none"),
                       NewNode(c, 1, calls[c].arg, calls[c].opts))
    IN IF ch.err # "none" THEN LoadFails(c, ch.err)
       ELSE /\ nodes' = ch.nodes
            /\ conns' = ch.conns
            /\ calls' = [calls EXCEPT ![c].load = "attached",
                                      ![c].ret = IF variant = "ts" THEN "fulfilled" ELSE @]
            /\ UNCHANGED dropped

Loading(c, stage) == c \in 1..Len(calls) /\ calls[c].load = stage

\* `await fetch(buffer)` settles.
FetchSettles(c, ok) ==
    /\ Loading(c, "fetch")
    /\ IF ok THEN /\ calls' = [calls EXCEPT ![c].load = "arrayBuffer"]
                  /\ UNCHANGED <<nodes, conns, dropped>>
       ELSE LoadFails(c, "ResourceFetchError")
    /\ UNCHANGED <<variant, awaits, sinkOutputs, originalStream, registered, instantiated>>

\* `await response.arrayBuffer()` settles.
ArrayBufferSettles(c, ok) ==
    /\ Loading(c, "arrayBuffer")
    /\ IF ok THEN /\ calls' = [calls EXCEPT ![c].load = "decode"]
                  /\ UNCHANGED <<nodes, conns, dropped>>
       ELSE LoadFails(c, "ResourceFetchError")
    /\ UNCHANGED <<variant, awaits, sinkOutputs, originalStream, registered, instantiated>>

\* `await this.audioCtx.decodeAudioData(arraybuffer)` settles.
DecodeSettles(c, ok) ==
    /\ Loading(c, "decode")
    /\ IF ok THEN LoadAttaches(c) ELSE LoadFails(c, "DecodeError")
    /\ UNCHANGED <<variant, awaits, sinkOutputs, originalStream, registered, instantiated>>

\* The rejection of addModule caught and swallowed: the instantiation follows.
AddModuleSettlesAs_SwallowedError(c, ok, found) ==
    /\ Loading(c, "addModule")
    /\ IF ~found THEN LoadFails(c, "ProcessorInstantiationError")
       ELSE LoadAttaches(c)
    /\ registered' = IF ok THEN registered \cup {c} ELSE registered
    /\ instantiated' = instantiated \cup {c}
    /\ UNCHANGED <<variant, awaits, sinkOutputs, originalStream>>

\* `await this.audioCtx.audioWorklet.addModule(scriptLocation)` settles; on
\* success `new AudioWorkletNode(ctx, processorName)` follows at once, and
\* throws when the module registered no processor of that name.
AddModuleSettles(c, ok, found) ==
    /\ Loading(c, "addModule")
    /\ IF ~ok THEN LoadFails(c, "ModuleLoadError")
       ELSE IF ~found THEN LoadFails(c, "ProcessorInstantiationError")
       ELSE LoadAttaches(c)
    /\ registered' = IF ok THEN registered \cup {c} ELSE registered
    /\ instantiated' = IF ok THEN instantiated \cup {c} ELSE instantiated
    /\ UNCHANGED <<variant, awaits, sinkOutputs, originalStream>>

GetProcessedStream(bound) ==
    /\ CanCall(bound)
    /\ LET ch == GetProcessedStreamOn(Chain(nodes, conns, "none"))
       IN /\ nodes' = ch.nodes
          /\ conns' = ch.conns
          /\ calls' = Append(calls, Finalizing(Call("getProcessedStream", "", <<>>,
                                                    Returned(ch.err), ch.err, "none", 0),
                                               ch.err))
    /\ UNCHANGED <<variant, awaits, sinkOutputs, originalStream, dropped, registered,
                   instantiated>>

\* usePreset up to the point where it hands control back: all of it in
\* src/index.js; up to the first `await this.addNode(..)` in src/src/index.ts,
\* or all of it when no case matches.
UsePreset(bound, name) ==
    /\ CanCall(bound)
    /\ LET c == Len(calls) + 1
           ch0 == Chain(nodes, conns, "none")
           stages == PresetStages(name)
           whole == variant = "js" \/ stages = <<>>
           added == AddAll(ch0, c, stages, 1)
           made == (Len(added.nodes) - Len(nodes)) + (IF added.err = "none" THEN 0 ELSE 1)
           ch == IF whole THEN UsePresetJs(ch0, c, name)
                 ELSE AddNodeSync(ch0, c, 1, stages[1].kind, stages[1].opts)
           call == Call("usePreset", name, <<>>,
                        IF whole THEN Settled(ch.err) ELSE "pending",
                        ch.err, "none", IF whole THEN made ELSE 1)
       IN /\ nodes' = ch.nodes
          /\ conns' = ch.conns
          /\ calls' = Append(calls, IF whole /\ added.err = "none"
                                    THEN Finalizing(call, ch.err) ELSE call)
    /\ UNCHANGED <<variant, awaits, sinkOutputs, originalStream, dropped, registered,
                   instantiated>>

\* The rejection of an awaited addNode ignored: usePreset goes on.
PresetResumesAs_IgnoresRejection(c) ==
    /\ c \in 1..Len(calls)
    /\ calls[c].op = "usePreset"
    /\ calls[c].ret = "pending"
    /\ LET stages == PresetStages(calls[c].arg)
           k == calls[c].pc + 1
           ch0 == Chain(nodes, conns, "none")
       IN IF k <= Len(stages)
          THEN LET ch == AddNodeSync(ch0, c, k, stages[k].kind, stages[k].opts)
               IN /\ nodes' = ch.nodes
                  /\ conns' = ch.conns
                  /\ calls' = [calls EXCEPT ![c].pc = k, ![c].err = ch.err]
          ELSE LET ch == GetProcessedStreamOn(ch0)
               IN /\ nodes' = ch.nodes
                  /\ conns' = ch.conns
                  /\ calls' = [calls EXCEPT
                                  ![c] = Finalizing([@ EXCEPT !.ret = Settled(ch.err),
                                                              !.err = ch.err], ch.err)]
    /\ UNCHANGED <<variant, awaits, sinkOutputs, originalStream, dropped, registered,
                   instantiated>>

\* usePreset of src/src/index.ts resumes after an `await this.addNode(..)`:
\* it rethrows the rejection, or makes the next addNode call, or, after the
\* last one, runs getProcessedStream and settles.
PresetResumes(c) ==
    /\ c \in 1..Len(calls)
    /\ calls[c].op = "usePreset"
    /\ calls[c].ret = "pending"
    /\ LET stages == PresetStages(calls[c].arg)
           k == calls[c].pc + 1
           ch0 == Chain(nodes, conns, "none")
       IN IF calls[c].err # "none"
          THEN /\ calls' = [calls EXCEPT ![c].ret = "rejected"]
               /\ UNCHANGED <<nodes, conns>>
          ELSE IF k <= Len(stages)
          THEN LET ch == AddNodeSync(ch0, c, k, stages[k].kind, stages[k].opts)
               IN /\ nodes' = ch.nodes
                  /\ conns' = ch.conns
                  /\ calls' = [calls EXCEPT ![c].pc = k, ![c].err = ch.err]
          ELSE LET ch == GetProcessedStreamOn(ch0)
               IN /\ nodes' = ch.nodes
                  /\ conns' = ch.conns
                  /\ calls' = [calls EXCEPT
                                  ![c] = Finalizing([@ EXCEPT !.ret = Settled(ch.err),
                                                              !.err = ch.err], ch.err)]
    /\ UNCHANGED <<variant, awaits, sinkOutputs, originalStream, dropped, registered,
                   instantiated>>

\* ------------------------------------------------------------------ inputs
NoDefaults3 == [type |-> Undef, frequency |-> Undef, Q |-> Undef]

NoDefaults5 ==
    [threshold |-> Undef, knee |-> Undef, ratio |-> Undef, attack |-> Undef,
     release |-> Undef]

\* The option objects the caller passes in the runs that exercise the calls.
Options(kind) ==
    CASE kind = "GAIN" -> {[gain |-> Undef], [gain |-> Num(150)]}
      [] kind = "BIQUAD_FILTER" -> {NoDefaults3}
      [] kind = "DYNAMIC_COMPRESSOR" -> {NoDefaults5}
      [] kind = "DELAY" ->
            {[delayTime |-> Num(30), maxDelayTime |-> Num(100)],
             [delayTime |-> Num(50), maxDelayTime |-> Num(20)],
             [delayTime |-> Num(30), maxDelayTime |-> Num(0)]}
      [] kind = "CONVOLVER" -> {[buffer |-> Str("ir.wav"), normalize |-> TRUE]}
      [] kind = "WAVE_SHAPER" -> {[curve |-> Str("curve"), oversample |-> Str("4x")]}
      [] kind = "PROCESSING_SCRIPT" ->
            {[scriptLocation |-> Str("worklet.js"), processorName |-> Str("proc")]}
      [] OTHER -> {<<>>}

Kinds == NodeTypes \cup {"UNKNOWN_KIND"}

PresetNames ==
    {"GAIN_BIQUAD_DELAY", "GAIN_DELAY", "DYNAMIC_DELAY", "ECHO", "BIQUAD_DELAY",
     "NO_SUCH_PRESET"}

CallIds == 1..MaxCalls

Next ==
    \/ \E kind \in Kinds : \E o \in Options(kind) : AddNode(MaxCalls, kind, o)
    \/ \E c \in CallIds, ok \in BOOLEAN : FetchSettles(c, ok)
    \/ \E c \in CallIds, ok \in BOOLEAN : ArrayBufferSettles(c, ok)
    \/ \E c \in CallIds, ok \in BOOLEAN : DecodeSettles(c, ok)
    \/ \E c \in CallIds, ok \in BOOLEAN, found \in BOOLEAN : AddModuleSettles(c, ok, found)
    \/ GetProcessedStream(MaxCalls)
    \/ \E name \in PresetNames : UsePreset(MaxCalls, name)
    \/ \E c \in CallIds : PresetResumes(c)

Spec == Init /\ [][Next]_vars

\* The runs that enumerate option values: the kinds with defaulted
\* parameters, each parameter absent, falsy or given.
DefaultedKinds == {"GAIN", "BIQUAD_FILTER", "DYNAMIC_COMPRESSOR"}

CfgOptions(kind) ==
    CASE kind = "GAIN" -> [gain : {Undef, Null, Num(0), Num(150)}]
      [] kind = "BIQUAD_FILTER" ->
            [type : {Undef, Str(""), Str("highpass")},
             frequency : {Undef, Num(0), Num(100000)},
             Q : {Undef, Null, Num(200)}]
      [] kind = "DYNAMIC_COMPRESSOR" ->
            [threshold : {Undef, Num(-2400)}, knee : {Undef, Num(2000)},
             ratio : {Undef, Num(400)}, attack : {Undef, Num(0), Num(30)},
             release : {Undef, Num(50)}]

NextCfg ==
    \E kind \in DefaultedKinds : \E o \in CfgOptions(kind) : AddNode(MaxCfgCalls, kind, o)

SpecCfg == Init /\ [][NextCfg]_vars

\* The runs that enumerate input streams: every sequence of at most MaxTracks
\* distinct tracks, finalized directly or through a preset.
Tracks ==
    {Track("a1", "audio"), Track("a2", "audio"), Track("v1", "video"),
     Track("v2", "video")}

InputStreams ==
    {s \in UNION {[1..n -> Tracks] : n \in 0..MaxTracks} :
        \A i, j \in 1..Len(s) : i # j => s[i] # s[j]}

InitStream == Constructed(InputStreams)

NextStream ==
    \/ GetProcessedStream(MaxCalls)
    \/ \E name \in {"GAIN_BIQUAD_DELAY", "ECHO"} : UsePreset(MaxCalls, name)
    \/ \E c \in CallIds : PresetResumes(c)

SpecStream == InitStream /\ [][NextStream]_vars

\* The runs that go on after getProcessedStream: up to MaxFinalCalls calls,
\* each a getProcessedStream or an addNode of a kind without loading.
NextFinal ==
    \/ \E kind \in {"GAIN", "DELAY"} :
          AddNode(MaxFinalCalls, kind, CHOOSE o \in Options(kind) : TRUE)
    \/ GetProcessedStream(MaxFinalCalls)

SpecFinal == Init /\ [][NextFinal]_vars

\* ------------------------------------------------------------------ claims
CallSet == 1..Len(calls)

IsAddNode(i) == calls[i].op = "addNode"

\* The call has come to its end without an error and its stage is attached.
Succeeded(i) ==
    /\ calls[i].err = "none"
    /\ calls[i].ret \in {"value", "fulfilled"}
    /\ calls[i].load \in {"none", "attached"}

Connected(a, b) == <<Id(a), Id(b)>> \in conns

InNodes(c) == \E p \in 1..Len(nodes) : nodes[p].call = c

InConns(c) == \E e \in conns : e[1][1] = c \/ e[2][1] = c

LoadErrors ==
    {"ResourceFetchError", "DecodeError", "ModuleLoadError", "ProcessorInstantiationError"}

\* C1: after N addNode calls of a serializing caller that all succeeded, nodes
\* has length N+1, starts with the source, holds the stage of the i-th call at
\* position i, and every adjacent pair is connected.
C1_SucceededAppendsInCallOrder ==
    (awaits /\ \A i \in CallSet : IsAddNode(i) /\ calls[i].arg \in NodeTypes /\ Succeeded(i))
    => /\ Len(nodes) = Len(calls) + 1
       /\ nodes[1] = source
       /\ \A i \in CallSet : nodes[i + 1].call = i /\ Connected(nodes[i], nodes[i + 1])

\* C2: when the caller awaits the result of each addNode call before the next,
\* the stages stand in nodes in the order of their calls, whatever the latency
\* of the loads.
C2_AwaitedAppendsKeepCallOrder ==
    (awaits /\ \A i \in CallSet : IsAddNode(i))
    => \A p, q \in 2..Len(nodes) : p < q => nodes[p].call < nodes[q].call

\* C3: a second getProcessedStream fails with AlreadyFinalizedError and leaves
\* nodes and the connections as the first call left them.
C3_SecondFinalizeRejected ==
    (Len(calls) = 2 /\ \A i \in CallSet : calls[i].op = "getProcessedStream")
    => /\ calls[2].err = "AlreadyFinalizedError"
       /\ nodes = <<source, destination>>
       /\ conns = {<<Id(source), Id(destination)>>}

\* C4 (state part): the stage of an append that failed is neither in nodes nor
\* an end of a connection.
FailedStageAbsent ==
    \A c \in CallSet : calls[c].load = "failed" => ~InNodes(c) /\ ~InConns(c)

\* C4 (step part): the step in which a load fails changes neither nodes nor the
\* connections.
FailingStepKeepsChain ==
    \A c \in CallSet :
        (calls[c].load \notin {"none", "attached", "failed"} /\ calls'[c].load = "failed")
        => (nodes' = nodes /\ conns' = conns)

\* C4 (step part): while a serializing caller waits for an append that does
\* not end attached, nothing changes nodes or the connections.
AwaitedLoadKeepsChain ==
    \A c \in CallSet :
        (awaits /\ IsAddNode(c) /\ calls[c].ret = "pending" /\ calls'[c].load # "attached")
        => (nodes' = nodes /\ conns' = conns)

\* C4: an append that fails while loading (fetch, decode, module registration,
\* processor instantiation) leaves nodes and the connections as they were
\* before it was issued; the failed stage is never connected and never added.
C4_FailedAppendLeavesChain ==
    /\ []FailedStageAbsent
    /\ [][FailingStepKeepsChain /\ AwaitedLoadKeepsChain]_vars

C4_Witness ==
    \E c \in CallSet :
        /\ calls[c].load = "failed"
        /\ calls[c].err \in LoadErrors
        /\ Len(nodes) > 1

\* C5: every error raised while a stage is appended reaches the caller of
\* addNode, as a throw or as a rejection; none is dropped.
C5_AppendErrorsReachCaller ==
    /\ dropped = {}
    /\ \A i \in CallSet :
         (IsAddNode(i) /\ calls[i].err # "none") => calls[i].ret \in {"threw", "rejected"}

\* C6: addNode with a kind outside the seven fails with UnknownKindError and
\* leaves the chain unchanged.
C6_UnknownKindRejected ==
    \A i \in CallSet :
        (IsAddNode(i) /\ calls[i].arg \notin NodeTypes)
        => /\ calls[i].err = "UnknownKindError"
           /\ calls[i].ret \in {"threw", "rejected"}
           /\ ~InNodes(i)

\* C7: usePreset with a name that is not in the catalog fails with
\* UnknownPresetError instead of returning an output stream.
C7_UnknownPresetRejected ==
    \A i \in CallSet :
        (calls[i].op = "usePreset" /\ calls[i].arg \notin PresetType)
        => /\ calls[i].err = "UnknownPresetError"
           /\ calls[i].ret = "rejected"

\* The stages a preset lists, as nodes of call c.
RECURSIVE ListedNodes(_, _, _)
ListedNodes(c, stages, k) ==
    IF k > Len(stages) THEN <<>>
    ELSE <<[call |-> c, seq |-> k, kind |-> stages[k].kind, cfg |-> stages[k].opts]>>
         \o ListedNodes(c, stages, k + 1)

\* C8: a preset of the catalog applied to a fresh chain ends with the source,
\* the stages it lists in the order listed, then the sink; the sink is there
\* only once all of them are; for GAIN_BIQUAD_DELAY these are GAIN{1.5},
\* BIQUAD_FILTER{highpass, 1000, 1}, DELAY{0.3, 1}.
C8_PresetYieldsListedChain ==
    (Len(calls) = 1 /\ calls[1].op = "usePreset" /\ calls[1].arg \in PresetType)
    => /\ (calls[1].ret # "pending" \/ destination \in {nodes[p] : p \in 1..Len(nodes)})
          => /\ calls[1].ret = "fulfilled"
             /\ nodes = <<source>> \o ListedNodes(1, PresetStages(calls[1].arg), 1)
                          \o <<destination>>
             /\ \A p \in 1..(Len(nodes) - 1) : Connected(nodes[p], nodes[p + 1])
             /\ Cardinality(conns) = Len(nodes) - 1
       /\ (calls[1].ret = "fulfilled" /\ calls[1].arg = "GAIN_BIQUAD_DELAY")
          => /\ Len(nodes) = 5
             /\ nodes[2].kind = "GAIN" /\ nodes[2].cfg = [gain |-> Num(150)]
             /\ nodes[3].kind = "BIQUAD_FILTER"
             /\ nodes[3].cfg = [type |-> Str("highpass"), frequency |-> Num(100000),
                                Q |-> Num(100)]
             /\ nodes[4].kind = "DELAY"
             /\ nodes[4].cfg = [delayTime |-> Num(30), maxDelayTime |-> Num(100)]
             /\ nodes[5] = destination

C8_Witness ==
    /\ Len(calls) = 1
    /\ calls[1].op = "usePreset"
    /\ calls[1].arg = "GAIN_BIQUAD_DELAY"
    /\ calls[1].ret = "fulfilled"
    /\ Len(nodes) = 5

\* C9: addNode('DELAY', cfg) with maxDelayTime < delayTime fails with
\* InvalidConfigurationError and attaches no DELAY stage.
C9_DelayConfigurationChecked ==
    \A i \in CallSet :
        (/\ IsAddNode(i)
         /\ calls[i].arg = "DELAY"
         /\ calls[i].opts.maxDelayTime.n < calls[i].opts.delayTime.n)
        => /\ calls[i].err = "InvalidConfigurationError"
           /\ ~InNodes(i)

\* The defaults of the table of defaulted parameters.
DefaultOf(p) ==
    CASE p = "gain" -> Num(100)
      [] p = "type" -> Str("lowpass")
      [] p = "frequency" -> Num(35000)
      [] p = "Q" -> Num(100)
      [] p = "threshold" -> Num(-5000)
      [] p = "knee" -> Num(4000)
      [] p = "ratio" -> Num(1200)
      [] p = "attack" -> Num(0)
      [] p = "release" -> Num(25)

\* C10: addNode of a kind with defaulted parameters attaches a stage in which
\* each parameter the caller left out has the default of the table and each
\* parameter given a non-falsy value has that value.
C10_DefaultsAndGivenValues ==
    \A i \in CallSet :
        (IsAddNode(i) /\ calls[i].arg \in DefaultedKinds)
        => /\ Succeeded(i)
           /\ nodes[i + 1].call = i
           /\ nodes[i + 1].kind = calls[i].arg
           /\ DOMAIN nodes[i + 1].cfg = DOMAIN calls[i].opts
           /\ \A p \in DOMAIN calls[i].opts :
                /\ calls[i].opts[p] = Undef => nodes[i + 1].cfg[p] = DefaultOf(p)
                /\ ~Falsy(calls[i].opts[p]) => nodes[i + 1].cfg[p] = calls[i].opts[p]

C10_Witness ==
    \E i \in CallSet :
        /\ calls[i].arg = "BIQUAD_FILTER"
        /\ calls[i].opts = [type |-> Undef, frequency |-> Undef, Q |-> Num(200)]
        /\ nodes[i + 1].cfg = [type |-> Str("lowpass"), frequency |-> Num(35000),
                               Q |-> Num(200)]

\* C11: a defaulted parameter given as null, zero, '' or otherwise falsy gets
\* the default when the stage is built, in both variants.
C11_FalsyReplacedByDefault ==
    \A i \in CallSet :
        (IsAddNode(i) /\ calls[i].arg \in DefaultedKinds /\ Succeeded(i))
        => \A p \in DOMAIN calls[i].opts :
             Falsy(calls[i].opts[p]) => nodes[i + 1].cfg[p] = DefaultOf(p)

\* The calls that handed a stream back to the caller.
ReturnedStream(i) ==
    /\ calls[i].fin
    /\ calls[i].err = "none"
    /\ calls[i].ret \in {"value", "fulfilled"}

Position(stream, t) == CHOOSE k \in 1..Len(stream) : stream[k] = t

\* C12: the stream getProcessedStream returns holds the audio tracks of the
\* sink's stream, then the video tracks of the input stream, each group in its
\* original order and the same tracks; no audio track of the input is in it.
C12_OutputStreamTracks ==
    \A i \in CallSet :
        ReturnedStream(i)
        => LET out == calls[i].out
               n == Len(destinationStream)
           IN /\ Len(out) >= n
              /\ \A k \in 1..n : out[k] = destinationStream[k]
              /\ \A k \in (n + 1)..Len(out) :
                   /\ out[k].kind = "video"
                   /\ \E j \in 1..Len(originalStream) : originalStream[j] = out[k]
              /\ \A j \in 1..Len(originalStream) :
                   IF originalStream[j].kind = "audio"
                   THEN \A k \in 1..Len(out) : out[k] # originalStream[j]
                   ELSE Cardinality({k \in (n + 1)..Len(out) : out[k] = originalStream[j]}) = 1
              /\ \A k, l \in (n + 1)..Len(out) :
                   k < l => Position(originalStream, out[k]) < Position(originalStream, out[l])

C12_Witness ==
    \E i \in CallSet :
        /\ ReturnedStream(i)
        /\ Len(calls[i].out) = 3
        /\ \E j \in 1..Len(originalStream) : originalStream[j].kind = "audio"
        /\ originalStream[1].kind = "video"

\* C13: the processor of a PROCESSING_SCRIPT append is instantiated only after
\* addModule has completed successfully; when registration fails, nothing is
\* instantiated and nothing is connected.
C13_InstantiationAfterRegistration ==
    /\ instantiated \subseteq registered
    /\ \A c \in CallSet :
         (calls[c].arg = "PROCESSING_SCRIPT" /\ calls[c].load \in {"attached", "failed"}
          /\ c \notin registered)
         => /\ calls[c].err = "ModuleLoadError"
            /\ c \notin instantiated
            /\ ~InNodes(c)
            /\ ~InConns(c)

C13_Witness ==
    /\ \E c \in CallSet : calls[c].err = "ModuleLoadError" /\ Len(nodes) > 1
    /\ \E c \in CallSet : c \in instantiated

\* C14: addNode of GAIN, BIQUAD_FILTER, DYNAMIC_COMPRESSOR, DELAY or
\* WAVE_SHAPER does not suspend: when it hands control back without an error
\* its stage is the last element of nodes; only CONVOLVER and
\* PROCESSING_SCRIPT appends suspend, with nothing attached yet.
AddNodeHandsBack ==
    (Len(calls') = Len(calls) + 1 /\ calls'[Len(calls')].op = "addNode")
    => LET c == Len(calls')
           k == calls'[c]
       IN /\ (/\ k.arg \in {"GAIN", "BIQUAD_FILTER", "DYNAMIC_COMPRESSOR", "DELAY",
                            "WAVE_SHAPER"}
              /\ k.err = "none")
             => /\ k.load = "none"
                /\ k.ret \in {"value", "fulfilled"}
                /\ Len(nodes') = Len(nodes) + 1
                /\ nodes'[Len(nodes')].call = c
                /\ nodes'[Len(nodes')].kind = k.arg
          /\ k.load # "none" <=> k.arg \in {"CONVOLVER", "PROCESSING_SCRIPT"}
          /\ k.load # "none" => (nodes' = nodes /\ conns' = conns)

C14_SyncKindsAttachAtOnce == [][AddNodeHandsBack]_vars

C14_Witness ==
    \E i, j \in CallSet :
        /\ calls[i].arg = "DELAY"
        /\ calls[i].err = "none"
        /\ nodes[Len(nodes)].call = i
        /\ calls[j].load \in {"fetch", "addModule"}

\* C15: nodes is never empty, starts with the source, and only grows at its
\* end: every step leaves the previous nodes as a prefix.
C15_NodesAppendOnly ==
    /\ [](Len(nodes) >= 1 /\ nodes[1] = source)
    /\ [][Len(nodes') >= Len(nodes) /\ SubSeq(nodes', 1, Len(nodes)) = nodes]_vars

C15_Witness ==
    /\ Len(nodes) = 3
    /\ \E p \in 2..3 : nodes[p] = destination
    /\ \E c \in CallSet : calls[c].load = "attached"

\* C16: no stage object, the sink included, is at two positions of nodes.
C16_NoStageTwice ==
    \A p, q \in 1..Len(nodes) : p # q => Id(nodes[p]) # Id(nodes[q])

\* C17: once the sink is connected it stays the last element of nodes and
\* nothing is connected downstream of it.
C17_FinalizationTerminal ==
    (\E p \in 1..Len(nodes) : nodes[p] = destination)
    => /\ nodes[Len(nodes)] = destination
       /\ \A e \in conns : e[1] # Id(destination)

\* The node of stage k of call c.
StageAt(c, k, p) == nodes[p].call = c /\ nodes[p].seq = k

\* C18: a usePreset one of whose appends failed surfaces the error and has not
\* run getProcessedStream; the stages it appended before stay in nodes,
\* connected.
C18_FailedPresetNotFinalized ==
    \A c \in CallSet :
        calls[c].op = "usePreset"
        => /\ calls[c].fin
              => \A k \in 1..Len(PresetStages(calls[c].arg)) :
                    \E p \in 2..Len(nodes) : StageAt(c, k, p)
           /\ calls[c].err # "none"
              => /\ calls[c].ret \in {"pending", "rejected"}
                 /\ variant = "js" => calls[c].ret = "rejected"
                 /\ calls[c].out = <<>>
           /\ \A k \in 1..(calls[c].pc - 1) :
                \E p \in 2..Len(nodes) :
                    StageAt(c, k, p) /\ Connected(nodes[p - 1], nodes[p])

C18_Witness ==
    \E c \in CallSet :
        /\ calls[c].op = "usePreset"
        /\ calls[c].err # "none"
        /\ calls[c].ret = "rejected"
        /\ ~calls[c].fin
        /\ calls[c].pc = 2
        /\ \E p \in 2..Len(nodes) : StageAt(c, 1, p)

\* C19: the connections are exactly the adjacent pairs of nodes, and no node
\* has outgoing connections to two different stages.
C19_ConnectionsAreAdjacentPairs ==
    /\ conns = {<<Id(nodes[p]), Id(nodes[p + 1])>> : p \in 1..(Len(nodes) - 1)}
    /\ \A e, f \in conns : e[1] = f[1] => e[2] = f[2]

====
